---- MODULE Spec2Model ----
(***************************************************************************)
(* Model of macro_toggle.py: the MacroTool runner (start/stop/toggle), the *)
(* background thread body _run, the step interpreter do_step and the       *)
(* HoldState held-token tracker, with the input backends (pydirectinput    *)
(* and pynput) modelled as recorders of the calls they receive.            *)
(***************************************************************************)
EXTENDS Integers, Sequences, FiniteSets, TLC

\* ------------------------------------------------------------------ bounds
\* Longest macro built from CoreSteps, longest combo key list, and the
\* number of Thread objects that can exist at once.
MaxLen == 2
MaxCombo == 2
NThreads == 2
\* The count of the trigger key's key-down events and toggle() calls
\* between two of its key-ups stops at MaxRepeat.
MaxRepeat == 2

\* ------------------------------------------------------------- input sets
RawKeys == {"a", "Key.shift", "Key.shift_l", "Key.bogus"}
RawButtons == {"left", "side"}
Actions == {"tap", "press", "release", "hold"}
Modes == {"relative", "absolute", "diagonal"}

NoArg == [cls |-> "none", name |-> ""]
ERR == [cls |-> "error", name |-> "ValueError"]
\* The None of an Optional[KeyLike].
NoKey == [cls |-> "None", name |-> ""]

\* A step is one dict of the "macro" list; absent keys hold their defaults.
BaseStep == [type |-> "wait", key |-> "a", action |-> "tap", keys |-> <<>>,
             button |-> "left", count |-> 1, mode |-> "relative",
             seconds |-> 0, dy |-> 0]

SeqsUpTo(S, n) == UNION {[1..k -> S] : k \in 0..n}

WaitSteps == {[BaseStep EXCEPT !.seconds = s] : s \in {0, 10}}
TextSteps == {[BaseStep EXCEPT !.type = "text"]}
KeySteps == {[BaseStep EXCEPT !.type = "key", !.key = k, !.action = a] :
                k \in RawKeys, a \in Actions}
ComboSteps == {[BaseStep EXCEPT !.type = "combo", !.keys = ks] :
                ks \in SeqsUpTo(RawKeys, MaxCombo)}
MouseClickSteps == {[BaseStep EXCEPT !.type = "mouse_click", !.button = b, !.count = c] :
                b \in RawButtons, c \in {0, 2}}
MouseButtonSteps == {[BaseStep EXCEPT !.type = "mouse_button", !.button = b, !.action = a] :
                b \in RawButtons, a \in Actions}
MouseMoveSteps == {[BaseStep EXCEPT !.type = "mouse_move", !.mode = m] : m \in Modes}
MouseScrollSteps == {[BaseStep EXCEPT !.type = "mouse_scroll", !.dy = d] : d \in {0, 3}}
UnknownSteps == {[BaseStep EXCEPT !.type = "bogus"]}

AllSteps == WaitSteps \cup TextSteps \cup KeySteps \cup ComboSteps \cup MouseClickSteps
            \cup MouseButtonSteps \cup MouseMoveSteps \cup MouseScrollSteps \cup UnknownSteps

\* The steps multi-step macros are built from.
CoreSteps == {[BaseStep EXCEPT !.seconds = 10],
              [BaseStep EXCEPT !.type = "key", !.key = "a", !.action = "press"],
              [BaseStep EXCEPT !.type = "key", !.key = "a", !.action = "release"],
              [BaseStep EXCEPT !.type = "mouse_button", !.button = "left", !.action = "press"],
              [BaseStep EXCEPT !.type = "bogus"]}

Macros == {<<s>> : s \in AllSteps} \cup SeqsUpTo(CoreSteps, MaxLen)

\* -------------------------------------------------------- key conversions
\* Raw key strings of the form "Key.<name>" and the <name> after the dot.
KeyDotName == ("Key.shift" :> "shift") @@ ("Key.shift_l" :> "shift_l") @@ ("Key.bogus" :> "bogus")
\* Members of pynput.keyboard.Key among the names above.
KeyMembers == {"shift", "shift_l"}
\* Raw strings of length one.
SingleChars == {"a"}

PDI_KEY_MAP == ("Key.shift" :> "shift") @@ ("Key.shift_l" :> "shift")

Str(s) == [cls |-> "str", name |-> s]

parse_key_pynput(s) ==
    IF s \in DOMAIN KeyDotName
    THEN IF KeyDotName[s] \in KeyMembers
         THEN [cls |-> "Key", name |-> KeyDotName[s]]
         ELSE ERR
    ELSE IF s \in SingleChars
         THEN [cls |-> "KeyCode", name |-> s]
         ELSE ERR

to_pdi_key(raw) ==
    IF raw \in SingleChars
    THEN Str(raw)
    ELSE IF raw \in DOMAIN PDI_KEY_MAP
         THEN Str(PDI_KEY_MAP[raw])
         ELSE IF raw \in DOMAIN KeyDotName THEN Str(KeyDotName[raw]) ELSE Str(raw)

to_pdi_button(btn) ==
    IF btn \in {"left", "right", "middle"} THEN Str(btn) ELSE ERR

\* Button.left if b == "left" else (Button.right if b == "right" else Button.middle)
pynput_button(b) ==
    IF b = "left" THEN [cls |-> "Button", name |-> "left"]
    ELSE IF b = "right" THEN [cls |-> "Button", name |-> "right"]
    ELSE [cls |-> "Button", name |-> "middle"]

\* f"key:{raw}" and f"mouse:{button}"; release_all splits them at the first ":".
KeyToken(raw) == [kind |-> "key", val |-> raw]
MouseToken(button) == [kind |-> "mouse", val |-> button]
NoToken == [kind |-> "", val |-> ""]
Tokens == {KeyToken(k) : k \in RawKeys} \cup {MouseToken(b) : b \in RawButtons}

\* ------------------------------------------------------------- micro-steps
\* What one thread does next inside do_step or release_all: a backend call,
\* a HoldState mutation, or a raise. "tok" and "owe" say which held token a
\* call presses ("add") or releases ("del") on behalf of a press/release
\* action or a sweep; they are bookkeeping, the backend sees fn, arg and n.
Call(fn, arg) == [op |-> "call", fn |-> fn, arg |-> arg, n |-> 1, tok |-> NoToken, owe |-> ""]
CallN(fn, arg, n) == [op |-> "call", fn |-> fn, arg |-> arg, n |-> n, tok |-> NoToken, owe |-> ""]
PressCall(fn, arg, tok) == [op |-> "call", fn |-> fn, arg |-> arg, n |-> 1, tok |-> tok, owe |-> "add"]
ReleaseCall(fn, arg, tok) == [op |-> "call", fn |-> fn, arg |-> arg, n |-> 1, tok |-> tok, owe |-> "del"]
MarkDown(tok) == [op |-> "mark_down", fn |-> "", arg |-> NoArg, n |-> 1, tok |-> tok, owe |-> ""]
MarkUp(tok) == [op |-> "mark_up", fn |-> "", arg |-> NoArg, n |-> 1, tok |-> tok, owe |-> ""]
Raise == [op |-> "raise", fn |-> "", arg |-> ERR, n |-> 1, tok |-> NoToken, owe |-> ""]

Max(a, b) == IF a >= b THEN a ELSE b
Reverse(s) == [i \in 1..Len(s) |-> s[Len(s) + 1 - i]]
Repeat(x, n) == [i \in 1..n |-> x]

\* ------------------------------------------------------------------ do_step
\* The part of do_step after the cancellation check, as the list of
\* micro-steps the calling thread performs for the step, in order.
TextOps(step, pdi) ==
    IF pdi THEN <<Call("PDI.write", NoArg)>> ELSE <<Call("K.type", NoArg)>>

\* A key step whose press action marks the token before the backend press.
KeyOpsMarkFirst(step, pdi) ==
    LET raw == step.key
        action == step.action
        token == KeyToken(raw)
    IN  IF pdi
        THEN LET k == to_pdi_key(raw)
             IN  IF action = "tap" THEN <<Call("PDI.press", k)>>
                 ELSE IF action = "press"
                      THEN <<MarkDown(token), PressCall("PDI.keyDown", k, token)>>
                 ELSE IF action = "release"
                      THEN <<ReleaseCall("PDI.keyUp", k, token), MarkUp(token)>>
                 ELSE <<Raise>>
        ELSE LET key == parse_key_pynput(raw)
             IN  IF key = ERR THEN <<Raise>>
                 ELSE IF action = "tap" THEN <<Call("K.press", key), Call("K.release", key)>>
                 ELSE IF action = "press"
                      THEN <<MarkDown(token), PressCall("K.press", key, token)>>
                 ELSE IF action = "release"
                      THEN <<ReleaseCall("K.release", key, token), MarkUp(token)>>
                 ELSE <<Raise>>

KeyOps(step, pdi) ==
    LET raw == step.key
        action == step.action
        token == KeyToken(raw)
    IN  IF pdi
        THEN LET k == to_pdi_key(raw)
             IN  IF action = "tap" THEN <<Call("PDI.press", k)>>
                 ELSE IF action = "press"
                      THEN <<PressCall("PDI.keyDown", k, token), MarkDown(token)>>
                 ELSE IF action = "release"
                      THEN <<ReleaseCall("PDI.keyUp", k, token), MarkUp(token)>>
                 ELSE <<Raise>>
        ELSE LET key == parse_key_pynput(raw)
             IN  IF key = ERR THEN <<Raise>>
                 ELSE IF action = "tap" THEN <<Call("K.press", key), Call("K.release", key)>>
                 ELSE IF action = "press"
                      THEN <<PressCall("K.press", key, token), MarkDown(token)>>
                 ELSE IF action = "release"
                      THEN <<ReleaseCall("K.release", key, token), MarkUp(token)>>
                 ELSE <<Raise>>

\* A combo that releases its keys in the order it pressed them.
ComboOpsFifo(step, pdi) ==
    LET raw_keys == step.keys
    IN  IF raw_keys = <<>> THEN <<>>
        ELSE IF pdi
        THEN [i \in 1..Len(raw_keys) |-> Call("PDI.keyDown", to_pdi_key(raw_keys[i]))]
             \o [i \in 1..Len(raw_keys) |-> Call("PDI.keyUp", to_pdi_key(raw_keys[i]))]
        ELSE IF \E i \in 1..Len(raw_keys) : parse_key_pynput(raw_keys[i]) = ERR
             THEN <<Raise>>
             ELSE [i \in 1..Len(raw_keys) |-> Call("K.press", parse_key_pynput(raw_keys[i]))]
                  \o [i \in 1..Len(raw_keys) |-> Call("K.release", parse_key_pynput(raw_keys[i]))]

PdiDown(rk) == Call("PDI.keyDown", to_pdi_key(rk))
PdiUp(rk) == Call("PDI.keyUp", to_pdi_key(rk))
KPress(k) == Call("K.press", k)
KRelease(k) == Call("K.release", k)

ComboOps(step, pdi) ==
    LET raw_keys == step.keys
    IN  IF raw_keys = <<>> THEN <<>>
        ELSE IF pdi
        THEN [i \in 1..Len(raw_keys) |-> PdiDown(raw_keys[i])]
             \o [i \in 1..Len(raw_keys) |-> PdiUp(Reverse(raw_keys)[i])]
        ELSE LET keys == [i \in 1..Len(raw_keys) |-> parse_key_pynput(raw_keys[i])]
             IN  IF \E i \in 1..Len(keys) : keys[i] = ERR
                 THEN <<Raise>>
                 ELSE [i \in 1..Len(keys) |-> KPress(keys[i])]
                      \o [i \in 1..Len(keys) |-> KRelease(Reverse(keys)[i])]

\* A mouse_click that leaves its button marked as held.
MouseClickOpsMarks(step, pdi) ==
    IF pdi /\ to_pdi_button(step.button) = ERR THEN <<Raise>>
    ELSE <<Call(IF pdi THEN "PDI.click" ELSE "M.click",
                IF pdi THEN to_pdi_button(step.button) ELSE pynput_button(step.button)),
           MarkDown(MouseToken(step.button))>>

MouseClickOps(step, pdi) ==
    LET button == step.button
        count == step.count
    IN  IF pdi
        THEN IF to_pdi_button(button) = ERR THEN <<Raise>>
             ELSE <<CallN("PDI.click", to_pdi_button(button), Max(1, count))>>
        ELSE Repeat(Call("M.click", pynput_button(button)), Max(1, count))

MouseButtonOps(step, pdi) ==
    LET button == step.button
        action == step.action
        token == MouseToken(button)
    IN  IF pdi
        THEN LET b == to_pdi_button(button)
             IN  IF b = ERR THEN <<Raise>>
                 ELSE IF action = "tap" THEN <<Call("PDI.click", b)>>
                 ELSE IF action = "press"
                      THEN <<PressCall("PDI.mouseDown", b, token), MarkDown(token)>>
                 ELSE IF action = "release"
                      THEN <<ReleaseCall("PDI.mouseUp", b, token), MarkUp(token)>>
                 ELSE <<Raise>>
        ELSE LET btn == pynput_button(button)
             IN  IF action = "tap" THEN <<Call("M.click", btn)>>
                 ELSE IF action = "press"
                      THEN <<PressCall("M.press", btn, token), MarkDown(token)>>
                 ELSE IF action = "release"
                      THEN <<ReleaseCall("M.release", btn, token), MarkUp(token)>>
                 ELSE <<Raise>>

MouseMoveOps(step, pdi) ==
    LET mode == step.mode
    IN  IF pdi
        THEN IF mode = "relative" THEN <<Call("PDI.moveRel", NoArg)>>
             ELSE IF mode = "absolute" THEN <<Call("PDI.moveTo", NoArg)>>
             ELSE <<Raise>>
        ELSE IF mode = "relative" THEN <<Call("M.move", NoArg)>>
             ELSE IF mode = "absolute" THEN <<Call("M.position", NoArg)>>
             ELSE <<Raise>>

MouseScrollOps(step, pdi) ==
    IF pdi
    THEN IF step.dy # 0 THEN <<Call("PDI.scroll", NoArg)>> ELSE <<>>
    ELSE <<Call("M.scroll", NoArg)>>

\* A do_step that returns silently for a step type it does not know.
StepOpsLenient(step, pdi) ==
    LET t == step.type
    IN  IF t = "text" THEN TextOps(step, pdi)
        ELSE IF t = "key" THEN KeyOps(step, pdi)
        ELSE IF t = "combo" THEN ComboOps(step, pdi)
        ELSE IF t = "mouse_click" THEN MouseClickOps(step, pdi)
        ELSE IF t = "mouse_button" THEN MouseButtonOps(step, pdi)
        ELSE IF t = "mouse_move" THEN MouseMoveOps(step, pdi)
        ELSE IF t = "mouse_scroll" THEN MouseScrollOps(step, pdi)
        ELSE <<>>

StepOps(step, pdi) ==
    LET t == step.type
    IN  IF t = "text" THEN TextOps(step, pdi)
        ELSE IF t = "key" THEN KeyOps(step, pdi)
        ELSE IF t = "combo" THEN ComboOps(step, pdi)
        ELSE IF t = "mouse_click" THEN MouseClickOps(step, pdi)
        ELSE IF t = "mouse_button" THEN MouseButtonOps(step, pdi)
        ELSE IF t = "mouse_move" THEN MouseMoveOps(step, pdi)
        ELSE IF t = "mouse_scroll" THEN MouseScrollOps(step, pdi)
        ELSE <<Raise>>

\* ------------------------------------------------------------- release_all
\* The backend call release_all makes for one token of its snapshot, or
\* Raise when computing the call raises (swallowed by the except clause).
ReleaseOp(t, pdi) ==
    IF t.kind = "key"
    THEN IF pdi THEN ReleaseCall("PDI.keyUp", to_pdi_key(t.val), t)
         ELSE IF parse_key_pynput(t.val) = ERR THEN Raise
              ELSE ReleaseCall("K.release", parse_key_pynput(t.val), t)
    ELSE IF t.kind = "mouse"
    THEN IF pdi
         THEN IF to_pdi_button(t.val) = ERR THEN Raise
              ELSE ReleaseCall("PDI.mouseUp", to_pdi_button(t.val), t)
         ELSE ReleaseCall("M.release", pynput_button(t.val), t)
    ELSE Raise

\* A release_all that copies the held set and forgets to clear it.
SnapshotOnly(hs) == [tokens |-> hs, held |-> hs]

\* with self._lock: tokens = list(self._held); self._held.clear()
SnapshotAndClear(hs) == [tokens |-> hs, held |-> {}]

\* A stop() that only sets the event and leaves the sweep to the thread.
StopReleasesNothing(hs) == [tokens |-> {}, held |-> hs]

\* stop: self._hold.release_all()
StopReleaseAll(hs) == SnapshotAndClear(hs)

\* A _run whose finally clause releases nothing.
NoFinalRelease(hs) == [tokens |-> {}, held |-> hs]

\* _run: finally: self._hold.release_all()
FinalReleaseAll(hs) == SnapshotAndClear(hs)

\* ------------------------------------------------------------ the backend
\* The inputs the backend holds down after receiving a call.
DownFns == {"PDI.keyDown", "K.press", "PDI.mouseDown", "M.press"}
UpFns == {"PDI.keyUp", "K.release", "PDI.mouseUp", "M.release", "PDI.press", "PDI.click", "M.click"}
KeyFns == {"PDI.keyDown", "K.press", "PDI.keyUp", "K.release", "PDI.press"}
Input(c) == [dev |-> IF c.fn \in KeyFns THEN "key" ELSE "mouse", arg |-> c.arg]
Backend(d, c) ==
    IF c.fn \in DownFns THEN d \cup {Input(c)}
    ELSE IF c.fn \in UpFns THEN d \ {Input(c)}
    ELSE d

\* -------------------------------------------------------------------- state
VARIABLES
    macro,        \* MacroTool.macro
    loop,         \* MacroTool.loop
    USE_PDI,      \* the module-level backend switch
    stop_event,   \* MacroTool.stop_event (threading.Event): TRUE when set
    thread,       \* MacroTool.thread: 0 for None, else the Thread object
    alive,        \* alive[t]: Thread t has been started and has not finished
    held,         \* HoldState._held
    down,         \* the inputs the backend holds down
    owed,         \* tokens pressed by a press action whose release was not issued yet
    cpc,          \* where the control thread is
    bpc,          \* bpc[t]: where background thread t is
    idx,          \* idx[t]: position of thread t in "for step in self.macro"
    ops,          \* ops[t]: what is left of the step thread t is executing
    log,          \* log[t]: what thread t has done in the step it is executing
    tokens,       \* tokens[p]: the rest of the snapshot p's release_all iterates over
    swept,        \* swept[p]: the backend calls of p's current release_all
    raised,       \* raised[t]: an exception is propagating out of thread t's step loop
    row,          \* release_all snapshots taken since the last mark_down (2: two or more)
    trigger_hotkey, \* MacroTool.trigger_hotkey: "None" or the hotkey descriptor
    quit_hotkey,  \* MacroTool.quit_hotkey
    trigger_key,  \* MacroTool.trigger_key: NoKey or the parsed key
    quit_key,     \* MacroTool.quit_key
    _down,        \* MacroTool._down: the ids of the keys the watcher saw go down
    _hotkeys,     \* MacroTool._hotkeys: "None" or the GlobalHotKeys listener
    listening,    \* the trigger source delivers events
    ev,           \* the trigger key's events since its last key-up:
                  \* downs (key-downs delivered), toggles (toggle() calls made)
    failed,       \* where a backend call has raised since the last spawn:
                  \* "step" (in do_step), "sweep" (in release_all)
    crashed,      \* the last run that finished left _run by an exception
    h             \* what the control thread's current or last call observed:
                  \* last (the call), idle (no thread was alive when it was made),
                  \* stopped (toggle took its stop branch), tg (its place in a pair
                  \* of toggles), inflight (where the thread stood at stop's
                  \* snapshot), stuck (the held set was not empty at stop's return),
                  \* idle_stop (start() follows a stop() that was called with no
                  \* thread alive, and the event is still set)

vars == <<macro, loop, USE_PDI, stop_event, thread, alive, held, down, owed,
          cpc, bpc, idx, ops, log, tokens, swept, raised, row, h,
          trigger_hotkey, quit_hotkey, trigger_key, quit_key,
          _down, _hotkeys, listening, ev, failed, crashed>>
config == <<macro, loop, USE_PDI, trigger_hotkey, quit_hotkey, trigger_key, quit_key>>
source == <<_down, _hotkeys, listening, ev>>

Threads == 1..NThreads
Control == 0
Procs == {Control} \cup Threads

H0 == [last |-> "", inflight |-> "no", idle |-> FALSE, tg |-> 0, stopped |-> FALSE,
       stuck |-> FALSE, idle_stop |-> FALSE]

E0 == [downs |-> 0, toggles |-> 0]

\* MacroTool.__init__ and HoldState.__init__, and a backend with nothing down.
Constructed ==
    /\ stop_event = FALSE
    /\ thread = 0
    /\ alive = [t \in Threads |-> FALSE]
    /\ held = {}
    /\ down = {}
    /\ owed = {}
    /\ cpc = "idle"
    /\ bpc = [t \in Threads |-> "none"]
    /\ idx = [t \in Threads |-> 0]
    /\ ops = [t \in Threads |-> <<>>]
    /\ log = [t \in Threads |-> <<>>]
    /\ tokens = [p \in Procs |-> {}]
    /\ swept = [p \in Procs |-> <<>>]
    /\ raised = [t \in Threads |-> FALSE]
    /\ row = 0
    /\ h = H0
    /\ _down = {}
    /\ _hotkeys = "None"
    /\ ev = E0
    /\ failed = {}
    /\ crashed = FALSE

\* A MacroTool whose start(), stop() and toggle() are called directly:
\* run_forever has not been entered and no trigger is configured.
Init ==
    /\ macro \in Macros
    /\ loop \in BOOLEAN
    /\ USE_PDI \in BOOLEAN
    /\ trigger_hotkey = "None"
    /\ quit_hotkey = "None"
    /\ trigger_key = NoKey
    /\ quit_key = NoKey
    /\ listening = FALSE
    /\ Constructed

\* ----------------------------------------------------- threading primitives
\* An is_running that never sees the thread.
is_running_never == FALSE

\* self.thread is not None and self.thread.is_alive()
is_running == thread # 0 /\ alive[thread]

\* stop_event.is_set()
is_set == stop_event

\* _run: while not self.stop_event.is_set()
LoopCancelled == is_set

\* _run: if self.stop_event.is_set(): break
ForCancelled == is_set

\* A do_step without its cancellation check.
StepNeverCancelled == FALSE

\* do_step: if stop_event.is_set(): return
StepCancelled == is_set

\* A toggle() that always starts.
ToggleAlwaysStarts == FALSE

\* toggle: if self.is_running()
ToggleStops == is_running

\* stop_event.wait(timeout) returns without blocking
WaitReturnsAtOnce(seconds) == stop_event \/ seconds <= 0

\* A wait that sleeps through set(), as time.sleep would.
WaitNeverWoken == FALSE

\* a thread blocked in stop_event.wait(timeout) is woken by set()
WaitWoken == stop_event

\* A _run without its try/finally: an exception ends the thread at once.
RaiseSkipsFinally == "sweep"

\* _run: try: ... finally: an exception leaving the step loop enters finally
RaiseLandsIn == "finally"

\* The Thread object threading.Thread(...) creates: one that is not running.
NewThread == CHOOSE t \in Threads : ~alive[t] /\ \A u \in Threads : ~alive[u] => t <= u

\* ---------------------------------------------------- HoldState.release_all
\* Where the background thread stands relative to a press action when a
\* sweep takes its snapshot.
InFlight ==
    IF \E t \in Threads : bpc[t] = "exec" /\ ops[t] # <<>> /\ Head(ops[t]).op = "mark_down"
    THEN "after_press"
    ELSE IF \E t \in Threads : bpc[t] = "exec" /\ ops[t] # <<>> /\ Head(ops[t]).owe = "add"
    THEN "before_press"
    ELSE "no"

ReleaseSnap(p, snap) ==
    /\ tokens' = [tokens EXCEPT ![p] = snap.tokens]
    /\ held' = snap.held
    /\ swept' = [swept EXCEPT ![p] = <<>>]
    /\ row' = IF row = 0 THEN 1 ELSE 2

\* One pass of "for t in tokens": list(set) fixes no order.
ReleaseOne(p) ==
    \E t \in tokens[p] :
        LET c == ReleaseOp(t, USE_PDI)
        IN  /\ tokens' = [tokens EXCEPT ![p] = @ \ {t}]
            /\ IF c.op = "call"
               THEN /\ down' = Backend(down, c)
                    /\ owed' = owed \ {t}
                    /\ swept' = [swept EXCEPT ![p] = Append(@, c)]
               ELSE UNCHANGED <<down, owed, swept>>

\* A release_all that lets the exception out: the rest of the snapshot is
\* never released.
RestDropped(rest) == {}

\* release_all: except Exception: pass, and "for t in tokens" goes on
RestAfterFailure(rest) == rest

\* One pass of "for t in tokens" whose backend release raises: the backend
\* has rejected the call and nothing it holds down changes.
ReleaseFail(p) ==
    \E t \in tokens[p] :
        LET c == ReleaseOp(t, USE_PDI)
        IN  /\ c.op = "call"
            /\ tokens' = [tokens EXCEPT ![p] = RestAfterFailure(@ \ {t})]
            /\ owed' = owed \ {t}
            /\ swept' = [swept EXCEPT ![p] = Append(@, c)]
            /\ failed' = failed \cup {"sweep"}
            /\ UNCHANGED down

\* ------------------------------------------------------- the control thread
\* The trigger source calls start(), stop() or toggle(); each call runs to
\* its return before the next one is delivered.
CallStart ==
    /\ cpc = "idle"
    /\ cpc' = "start"
    /\ h' = [H0 EXCEPT !.last = "start", !.idle_stop = (h.last = "stop" /\ h.idle /\ stop_event)]
    /\ UNCHANGED <<config, source, failed, crashed, stop_event, thread, alive, held, down, owed, bpc, idx, ops, log, tokens, swept, raised, row>>

CallStop ==
    /\ cpc = "idle"
    /\ cpc' = "set"
    /\ h' = [H0 EXCEPT !.last = "stop", !.idle = ~is_running]
    /\ UNCHANGED <<config, source, failed, crashed, stop_event, thread, alive, held, down, owed, bpc, idx, ops, log, tokens, swept, raised, row>>

\* h.tg counts the toggle() calls of a pair that began with no thread alive.
ToggleCalled ==
    /\ cpc' = "toggle"
    /\ h' = [H0 EXCEPT !.last = "toggle", !.idle = ~is_running,
                       !.tg = IF h.last = "toggle" /\ h.tg = 1 THEN 2
                              ELSE IF ~is_running THEN 1 ELSE 0]

\* request_quit: print("[macro] quitting..."); self.stop()
QuitCalled ==
    /\ cpc' = "set"
    /\ h' = [H0 EXCEPT !.last = "quit", !.idle = ~is_running]

CallToggle ==
    /\ cpc = "idle"
    /\ ToggleCalled
    /\ UNCHANGED <<config, source, failed, crashed, stop_event, thread, alive, held, down, owed, bpc, idx, ops, log, tokens, swept, raised, row>>

\* toggle: if self.is_running(): self.stop() else: self.start()
ToggleCheck ==
    /\ cpc = "toggle"
    /\ cpc' = IF ToggleStops THEN "set" ELSE "start"
    /\ h' = [h EXCEPT !.stopped = ToggleStops]
    /\ UNCHANGED <<config, source, failed, crashed, stop_event, thread, alive, held, down, owed, bpc, idx, ops, log, tokens, swept, raised, row>>

\* start: with self.lock: if self.is_running(): return
StartCheck ==
    /\ cpc = "start"
    /\ cpc' = IF is_running THEN "idle" ELSE "clear"
    /\ UNCHANGED <<config, source, failed, crashed, stop_event, thread, alive, held, down, owed, bpc, idx, ops, log, tokens, swept, h, raised, row>>

\* A start() that leaves the event as stop() set it.
EventLeftAsSet == stop_event

\* start: self.stop_event.clear()
EventCleared == FALSE

StartClear ==
    /\ cpc = "clear"
    /\ stop_event' = EventCleared
    /\ cpc' = "spawn"
    /\ UNCHANGED <<config, source, failed, crashed, thread, alive, held, down, owed, bpc, idx, ops, log, tokens, swept, h, raised, row>>

\* start: self.thread = threading.Thread(target=self._run); self.thread.start()
StartSpawn ==
    /\ cpc = "spawn"
    /\ \E t \in Threads : ~alive[t]
    /\ thread' = NewThread
    /\ alive' = [alive EXCEPT ![NewThread] = TRUE]
    /\ bpc' = [bpc EXCEPT ![NewThread] = "run"]
    /\ cpc' = "idle"
    /\ failed' = {}
    /\ UNCHANGED <<config, source, crashed, stop_event, held, down, owed, idx, ops, log, tokens, swept, h, raised, row>>

\* stop: self.stop_event.set()
StopSet ==
    /\ cpc = "set"
    /\ stop_event' = TRUE
    /\ cpc' = "snap"
    /\ UNCHANGED <<config, source, failed, crashed, thread, alive, held, down, owed, bpc, idx, ops, log, tokens, swept, h, raised, row>>

\* stop: self._hold.release_all(), the locked snapshot
StopSnap ==
    /\ cpc = "snap"
    /\ ReleaseSnap(Control, StopReleaseAll(held))
    /\ cpc' = "rel"
    /\ h' = [h EXCEPT !.inflight = InFlight]
    /\ UNCHANGED <<config, source, failed, crashed, stop_event, thread, alive, down, owed, bpc, idx, ops, log, raised>>

\* stop: self._hold.release_all(), one token of the snapshot
StopRelease ==
    /\ cpc = "rel"
    /\ ReleaseOne(Control)
    /\ UNCHANGED <<config, source, failed, crashed, stop_event, thread, alive, held, cpc, bpc, idx, ops, log, h, raised, row>>

\* stop: release_all has returned
StopSwept ==
    /\ cpc = "rel"
    /\ tokens[Control] = {}
    /\ cpc' = "locked"
    /\ UNCHANGED <<config, source, failed, crashed, stop_event, thread, alive, held, down, owed, bpc, idx, ops, log, tokens, swept, h, raised, row>>

\* stop: with self.lock: if self.is_running(): print(...); then return, to
\* request_quit when it made the call
StopReturn ==
    /\ cpc = "locked"
    /\ cpc' = IF h.last = "quit" THEN "quit" ELSE "idle"
    /\ swept' = [swept EXCEPT ![Control] = <<>>]
    /\ h' = [h EXCEPT !.stuck = held # {}]
    /\ UNCHANGED <<config, source, failed, crashed, stop_event, thread, alive, held, down, owed, bpc, idx, ops, log, tokens, raised, row>>

ControlStep ==
    \/ CallStart \/ CallStop \/ CallToggle \/ ToggleCheck
    \/ StartCheck \/ StartClear \/ StartSpawn
    \/ StopSet \/ StopSnap \/ StopRelease \/ StopSwept \/ StopReturn

\* --------------------------------------------------- the background thread
\* Leaving the for loop: back to the while test when looping, else to finally.
AfterFor == IF loop THEN "while" ELSE "finally"

\* _run: try: if self.loop: ... else: ...
BgRun(t) ==
    /\ bpc[t] = "run"
    /\ bpc' = [bpc EXCEPT ![t] = IF loop THEN "while" ELSE "for"]
    /\ idx' = [idx EXCEPT ![t] = 1]
    /\ UNCHANGED <<config, source, failed, crashed, stop_event, thread, alive, held, down, owed, cpc, ops, log, tokens, swept, h, raised, row>>

\* _run: while not self.stop_event.is_set():
BgWhile(t) ==
    /\ bpc[t] = "while"
    /\ bpc' = [bpc EXCEPT ![t] = IF LoopCancelled THEN "finally" ELSE "for"]
    /\ idx' = [idx EXCEPT ![t] = 1]
    /\ UNCHANGED <<config, source, failed, crashed, stop_event, thread, alive, held, down, owed, cpc, ops, log, tokens, swept, h, raised, row>>

\* _run: for step in self.macro: if self.stop_event.is_set(): break
BgFor(t) ==
    /\ bpc[t] = "for"
    /\ bpc' = [bpc EXCEPT ![t] = IF idx[t] > Len(macro) THEN AfterFor
                                 ELSE IF ForCancelled THEN AfterFor
                                 ELSE "do_step"]
    /\ UNCHANGED <<config, source, failed, crashed, stop_event, thread, alive, held, down, owed, cpc, idx, ops, log, tokens, swept, h, raised, row>>

\* do_step up to its cancellation check: a wait step waits on the event,
\* any other step is skipped when the event is set and executed otherwise.
BgDoStep(t) ==
    /\ bpc[t] = "do_step"
    /\ LET step == macro[idx[t]]
       IN  IF step.type = "wait"
           THEN IF WaitReturnsAtOnce(step.seconds)
                THEN /\ bpc' = [bpc EXCEPT ![t] = "for"]
                     /\ idx' = [idx EXCEPT ![t] = @ + 1]
                     /\ UNCHANGED ops
                ELSE /\ bpc' = [bpc EXCEPT ![t] = "waiting"]
                     /\ UNCHANGED <<idx, ops>>
           ELSE IF StepCancelled
                THEN /\ bpc' = [bpc EXCEPT ![t] = "for"]
                     /\ idx' = [idx EXCEPT ![t] = @ + 1]
                     /\ UNCHANGED ops
                ELSE /\ bpc' = [bpc EXCEPT ![t] = "exec"]
                     /\ ops' = [ops EXCEPT ![t] = StepOps(step, USE_PDI)]
                     /\ UNCHANGED idx
    /\ UNCHANGED <<config, source, failed, crashed, stop_event, thread, alive, held, down, owed, cpc, log, tokens, swept, h, raised, row>>

\* stop_event.wait(timeout=...): the timeout elapses
BgWaitTimeout(t) ==
    /\ bpc[t] = "waiting"
    /\ bpc' = [bpc EXCEPT ![t] = "for"]
    /\ idx' = [idx EXCEPT ![t] = @ + 1]
    /\ UNCHANGED <<config, source, failed, crashed, stop_event, thread, alive, held, down, owed, cpc, ops, log, tokens, swept, h, raised, row>>

\* stop_event.wait(timeout=...): the event is set during the wait
BgWaitWake(t) ==
    /\ bpc[t] = "waiting"
    /\ WaitWoken
    /\ bpc' = [bpc EXCEPT ![t] = "for"]
    /\ idx' = [idx EXCEPT ![t] = @ + 1]
    /\ UNCHANGED <<config, source, failed, crashed, stop_event, thread, alive, held, down, owed, cpc, ops, log, tokens, swept, h, raised, row>>

\* do_step: the next backend call, HoldState mutation or raise of the step
BgExec(t) ==
    /\ bpc[t] = "exec"
    /\ ops[t] # <<>>
    /\ LET c == Head(ops[t])
       IN  /\ down' = IF c.op = "call" THEN Backend(down, c) ELSE down
           /\ owed' = IF c.owe = "add" THEN owed \cup {c.tok}
                      ELSE IF c.owe = "del" THEN owed \ {c.tok}
                      ELSE owed
           /\ held' = IF c.op = "mark_down" THEN held \cup {c.tok}
                      ELSE IF c.op = "mark_up" THEN held \ {c.tok}
                      ELSE held
           /\ row' = IF c.op = "mark_down" THEN 0 ELSE row
           /\ IF c.op = "raise"
              THEN /\ bpc' = [bpc EXCEPT ![t] = RaiseLandsIn]
                   /\ ops' = [ops EXCEPT ![t] = <<>>]
                   /\ log' = [log EXCEPT ![t] = <<>>]
                   /\ raised' = [raised EXCEPT ![t] = TRUE]
              ELSE /\ ops' = [ops EXCEPT ![t] = Tail(@)]
                   /\ log' = [log EXCEPT ![t] = Append(@, c)]
                   /\ UNCHANGED <<bpc, raised>>
    /\ UNCHANGED <<config, source, failed, crashed, stop_event, thread, alive, cpc, idx, tokens, swept, h>>

\* do_step returns
BgReturn(t) ==
    /\ bpc[t] = "exec"
    /\ ops[t] = <<>>
    /\ bpc' = [bpc EXCEPT ![t] = "for"]
    /\ idx' = [idx EXCEPT ![t] = @ + 1]
    /\ log' = [log EXCEPT ![t] = <<>>]
    /\ UNCHANGED <<config, source, failed, crashed, stop_event, thread, alive, held, down, owed, cpc, ops, tokens, swept, h, raised, row>>

\* _run: finally: self._hold.release_all(), the locked snapshot
BgFinally(t) ==
    /\ bpc[t] = "finally"
    /\ ReleaseSnap(t, FinalReleaseAll(held))
    /\ bpc' = [bpc EXCEPT ![t] = "sweep"]
    /\ UNCHANGED <<config, source, failed, crashed, stop_event, thread, alive, down, owed, cpc, idx, ops, log, h, raised>>

\* _run: finally: self._hold.release_all(), one token of the snapshot
BgSweep(t) ==
    /\ bpc[t] = "sweep"
    /\ ReleaseOne(t)
    /\ UNCHANGED <<config, source, failed, crashed, stop_event, thread, alive, held, cpc, bpc, idx, ops, log, h, raised, row>>

\* _run: print("[macro] stopped"), and the thread ends
BgExit(t) ==
    /\ bpc[t] = "sweep"
    /\ tokens[t] = {}
    /\ alive' = [alive EXCEPT ![t] = FALSE]
    /\ bpc' = [bpc EXCEPT ![t] = "none"]
    /\ idx' = [idx EXCEPT ![t] = 0]
    /\ swept' = [swept EXCEPT ![t] = <<>>]
    /\ raised' = [raised EXCEPT ![t] = FALSE]
    /\ crashed' = raised[t]
    /\ UNCHANGED <<config, source, failed, stop_event, thread, held, down, owed, cpc, ops, log, tokens, h, row>>

\* Every step of a background thread but the passing of a wait's timeout.
BgProgress(t) ==
    \/ BgRun(t) \/ BgWhile(t) \/ BgFor(t) \/ BgDoStep(t) \/ BgWaitWake(t)
    \/ BgExec(t) \/ BgReturn(t) \/ BgFinally(t) \/ BgSweep(t) \/ BgExit(t)

BackgroundStep == \E t \in Threads : BgProgress(t) \/ BgWaitTimeout(t)

Next == ControlStep \/ BackgroundStep

Spec == Init /\ [][Next]_vars

\* ------------------------------------------------------- a failing backend
\* do_step: the backend call the step has reached raises; the backend has
\* rejected the call, and the exception leaves do_step and the step loop.
BgExecFail(t) ==
    /\ bpc[t] = "exec"
    /\ ops[t] # <<>>
    /\ Head(ops[t]).op = "call"
    /\ bpc' = [bpc EXCEPT ![t] = RaiseLandsIn]
    /\ ops' = [ops EXCEPT ![t] = <<>>]
    /\ log' = [log EXCEPT ![t] = <<>>]
    /\ raised' = [raised EXCEPT ![t] = TRUE]
    /\ failed' = failed \cup {"step"}
    /\ UNCHANGED <<config, source, crashed, stop_event, thread, alive, held, down, owed, cpc, idx, tokens, swept, h, row>>

\* stop: self._hold.release_all(), a token whose backend release raises
StopReleaseFail ==
    /\ cpc = "rel"
    /\ ReleaseFail(Control)
    /\ UNCHANGED <<config, source, crashed, stop_event, thread, alive, held, cpc, bpc, idx, ops, log, h, raised, row>>

\* _run: finally: self._hold.release_all(), a token whose backend release raises
BgSweepFail(t) ==
    /\ bpc[t] = "sweep"
    /\ ReleaseFail(t)
    /\ UNCHANGED <<config, source, crashed, stop_event, thread, alive, held, cpc, bpc, idx, ops, log, h, raised, row>>

FaultStep == StopReleaseFail \/ \E t \in Threads : BgExecFail(t) \/ BgSweepFail(t)

FaultNext == Next \/ FaultStep

\* The macros run on the failing backend: a single step of every type,
\* action and mode on the key "a", the keys "a" and "Key.shift" and the left
\* button, and the sequences of two press actions, which hold two tokens
\* at once.
FaultSingles == {s \in AllSteps : /\ s.key = "a"
                                  /\ s.button = "left"
                                  /\ \A i \in DOMAIN s.keys : s.keys[i] \in {"a", "Key.shift"}}
FaultSteps == {[BaseStep EXCEPT !.type = "key", !.key = "a", !.action = "press"],
               [BaseStep EXCEPT !.type = "mouse_button", !.button = "left", !.action = "press"]}
FaultInit == Init /\ macro \in {<<s>> : s \in FaultSingles} \cup SeqsUpTo(FaultSteps, MaxLen)

\* The program on a backend whose calls may raise.
FaultSpec == FaultInit /\ [][FaultNext]_vars

\* The macros of the liveness specification: waits of both kinds, a press
\* that is never released, and a step that raises.
LiveSteps == WaitSteps \cup {[BaseStep EXCEPT !.type = "key", !.key = "a", !.action = "press"],
                             [BaseStep EXCEPT !.type = "bogus"]}
LiveInit == Init /\ macro \in SeqsUpTo(LiveSteps, MaxLen)

\* A started thread keeps running: the scheduler does not starve it, but
\* nothing bounds how long a wait's timeout is.
LiveSpec == LiveInit /\ [][Next]_vars /\ WF_vars(\E t \in Threads : BgProgress(t))

\* ------------------------------------------------------- the trigger source
\* The keys the watcher reports, as pynput hands them to the callbacks.
EventKeys == {[cls |-> "KeyCode", name |-> "a"], [cls |-> "KeyCode", name |-> "b"],
              [cls |-> "Key", name |-> "shift"]}

\* key_matches: both a Key or both a KeyCode, and equal
key_matches(event_key, target) ==
    /\ event_key.cls \in {"Key", "KeyCode"}
    /\ event_key.cls = target.cls
    /\ event_key = target

\* f"Key.{k.name}" and f"Char.{k.char}"
_key_id(k) ==
    IF k.cls = "Key" THEN <<"Key.", k.name>>
    ELSE IF k.cls = "KeyCode" THEN <<"Char.", k.name>>
    ELSE <<k.name>>

\* A watcher that takes every key-down for a new one.
NeverSeen(kid) == FALSE

\* _on_press_single: if kid in self._down
Seen(kid) == kid \in _down

\* A request_quit that stops a listener it does not have.
HotkeysAssumed == TRUE

\* request_quit: if self._hotkeys is not None
HotkeysStarted == _hotkeys # "None"

Min(a, b) == IF a <= b THEN a ELSE b
IsTrigger(k) == trigger_key # NoKey /\ key_matches(k, trigger_key)
IsQuit(k) == quit_key # NoKey /\ key_matches(k, quit_key)

\* run_forever, hotkey mode: the trigger hotkey calls self.toggle
OnHotkeyToggle ==
    /\ listening /\ trigger_hotkey # "None"
    /\ cpc = "idle"
    /\ ToggleCalled
    /\ UNCHANGED <<config, source, failed, crashed, stop_event, thread, alive, held, down, owed, bpc, idx, ops, log, tokens, swept, raised, row>>

\* run_forever, hotkey mode: the quit hotkey calls self.request_quit
OnHotkeyQuit ==
    /\ listening /\ trigger_hotkey # "None" /\ quit_hotkey # "None"
    /\ cpc = "idle"
    /\ QuitCalled
    /\ UNCHANGED <<config, source, failed, crashed, stop_event, thread, alive, held, down, owed, bpc, idx, ops, log, tokens, swept, raised, row>>

\* run_forever, hotkey mode: self._hotkeys = h, by the thread that entered
\* "with keyboard.GlobalHotKeys(mapping) as h" and so started the listener
HotkeysAssign ==
    /\ trigger_hotkey # "None"
    /\ _hotkeys = "None"
    /\ _hotkeys' = "h"
    /\ UNCHANGED <<config, _down, listening, ev, failed, crashed, stop_event, thread, alive, held, down, owed, cpc, bpc, idx, ops, log, tokens, swept, raised, row, h>>

\* _on_press_single, up to the call of toggle() or request_quit() or to its
\* return None
OnPressSingle(k) ==
    /\ listening /\ trigger_hotkey = "None"
    /\ cpc = "idle"
    /\ LET kid == _key_id(k)
           called == ~Seen(kid) /\ IsTrigger(k)
       IN  /\ ev' = IF IsTrigger(k)
                    THEN [downs |-> Min(ev.downs + 1, MaxRepeat),
                          toggles |-> IF called THEN Min(ev.toggles + 1, MaxRepeat)
                                      ELSE ev.toggles]
                    ELSE ev
           /\ IF Seen(kid)
              THEN UNCHANGED <<_down, cpc, h>>
              ELSE /\ _down' = _down \cup {kid}
                   /\ IF IsTrigger(k) THEN ToggleCalled
                      ELSE IF IsQuit(k) THEN QuitCalled
                      ELSE UNCHANGED <<cpc, h>>
    /\ UNCHANGED <<config, _hotkeys, listening, failed, crashed, stop_event, thread, alive, held, down, owed, bpc, idx, ops, log, tokens, swept, raised, row>>

\* _on_release_single
OnReleaseSingle(k) ==
    /\ listening /\ trigger_hotkey = "None"
    /\ cpc = "idle"
    /\ _down' = _down \ {_key_id(k)}
    /\ ev' = IF IsTrigger(k) THEN E0 ELSE ev
    /\ UNCHANGED <<config, _hotkeys, listening, failed, crashed, stop_event, thread, alive, held, down, owed, cpc, bpc, idx, ops, log, tokens, swept, raised, row, h>>

\* request_quit: if self._hotkeys is not None: self._hotkeys.stop(); then
\* back to the hotkey listener, or to _on_press_single's "return False"
QuitHotkeys ==
    /\ cpc = "quit"
    /\ listening' = IF HotkeysStarted THEN FALSE ELSE listening
    /\ cpc' = IF trigger_hotkey = "None" THEN "return_false" ELSE "idle"
    /\ UNCHANGED <<config, _down, _hotkeys, ev, failed, crashed, stop_event, thread, alive, held, down, owed, bpc, idx, ops, log, tokens, swept, raised, row, h>>

\* _on_press_single: return False, which stops the watcher
OnPressReturnFalse ==
    /\ cpc = "return_false"
    /\ listening' = FALSE
    /\ cpc' = "idle"
    /\ UNCHANGED <<config, _down, _hotkeys, ev, failed, crashed, stop_event, thread, alive, held, down, owed, bpc, idx, ops, log, tokens, swept, raised, row, h>>

TriggerStep ==
    \/ OnHotkeyToggle \/ OnHotkeyQuit \/ HotkeysAssign
    \/ \E k \in EventKeys : OnPressSingle(k) \/ OnReleaseSingle(k)
    \/ QuitHotkeys \/ OnPressReturnFalse

\* What toggle() and request_quit() run once called.
CalledStep ==
    \/ ToggleCheck \/ StartCheck \/ StartClear \/ StartSpawn
    \/ StopSet \/ StopSnap \/ StopRelease \/ StopSwept \/ StopReturn

ListenNext == TriggerStep \/ CalledStep \/ BackgroundStep

\* The macros played under the trigger source.
ListenSteps == {[BaseStep EXCEPT !.seconds = 10],
                [BaseStep EXCEPT !.type = "key", !.key = "a", !.action = "press"]}

\* run_forever has entered its "with" block: the hotkey listener runs with
\* the trigger hotkey and maybe a quit hotkey, or the single-key watcher
\* runs with a trigger key and maybe a quit key, which may be the same key.
ListenInit ==
    /\ macro \in SeqsUpTo(ListenSteps, MaxLen)
    /\ loop \in BOOLEAN
    /\ USE_PDI \in BOOLEAN
    /\ \/ /\ trigger_hotkey = "<ctrl>+<alt>+m"
          /\ quit_hotkey \in {"None", "<ctrl>+<alt>+q"}
          /\ trigger_key = NoKey
          /\ quit_key = NoKey
       \/ /\ trigger_hotkey = "None"
          /\ quit_hotkey = "None"
          /\ trigger_key = parse_key_pynput("a")
          /\ quit_key \in {NoKey, parse_key_pynput("a"), parse_key_pynput("Key.shift")}
    /\ listening = TRUE
    /\ Constructed

\* The program under run_forever.
ListenSpec == ListenInit /\ [][ListenNext]_vars

\* =================================================================== claims
StopReturned == cpc = "idle" /\ (h.last = "stop" \/ (h.last = "toggle" /\ h.stopped))
NoneAlive == \A t \in Threads : ~alive[t]
BgCleanedUp == \A t \in Threads : bpc[t] = "none" \/ (bpc[t] = "sweep" /\ tokens[t] = {})

\* C1 as stated: the held set is empty at the moment stop() returns, unless
\* the background thread stood between its backend press and mark_down when
\* stop's sweep took its snapshot.
NoStuckInputsAsStated ==
    StopReturned => (~h.stuck \/ h.inflight = "after_press")

\* C1: when stop() returns and from then on the held set is empty, unless the background
\* thread had passed do_step's cancellation check of a press action and had
\* not yet reached mark_down when stop's sweep took its snapshot; and once
\* the background thread has finished its own final release_all the held set
\* is empty and every token that was marked has had its release issued.
NoStuckInputs ==
    StopReturned =>
        /\ (~h.stuck /\ held = {}) \/ h.inflight # "no"
        /\ BgCleanedUp => held = {} /\ owed = {}

\* The race: stop() swept before the press was issued, the token was marked
\* before stop() returned, and it is still held while the thread is alive.
NoStuckInputsWitness ==
    StopReturned /\ h.inflight = "before_press" /\ h.stuck /\ held # {} /\ ~NoneAlive

\* C2: the held set is exactly the set of inputs pressed by a press action
\* and not yet released by a release action or a release_all sweep.
HeldIsExactlyPressed == held = owed

\* C3: at most one background thread is alive; start() returns without
\* touching the event or any thread when one is alive, and otherwise clears
\* the event and then starts exactly one thread.
AliveThreads == {t \in Threads : alive[t]}
OneThread ==
    /\ [](Cardinality(AliveThreads) <= 1)
    /\ [][cpc = "start" /\ cpc' # "start" =>
            IF is_running
            THEN cpc' = "idle" /\ stop_event' = stop_event /\ alive' = alive /\ thread' = thread
            ELSE cpc' = "clear"]_vars
    /\ [][cpc = "clear" /\ cpc' # "clear" => ~stop_event' /\ cpc' = "spawn" /\ alive' = alive]_vars
    /\ [][cpc = "spawn" /\ cpc' # "spawn" =>
            /\ AliveThreads = {}
            /\ Cardinality(AliveThreads') = 1
            /\ AliveThreads' = {thread'}]_vars

\* start() is called while the previous thread is finishing: it returns
\* without spawning, and the thread is still alive.
OneThreadWitness ==
    cpc = "idle" /\ h.last = "start" /\ stop_event /\ \E t \in Threads : bpc[t] = "sweep"

\* C4: stop() sets the event and then runs release_all to its end before it
\* returns, whether or not a thread is running; no step of stop() waits for
\* the background thread; a stop() called with no thread alive makes no
\* backend call and starts nothing.
InStop == cpc \in {"set", "snap", "rel", "locked"}
StopContract ==
    /\ [](cpc \in {"snap", "rel", "locked"} => stop_event)
    /\ [](cpc = "locked" => tokens[Control] = {})
    /\ [](StopReturned => stop_event /\ tokens[Control] = {})
    /\ [][cpc = "set" /\ cpc' # "set" => stop_event' /\ cpc' = "snap"]_vars
    /\ [][cpc = "snap" /\ cpc' # "snap" =>
            /\ cpc' = "rel"
            /\ tokens'[Control] = held
            /\ held' = {}]_vars
    /\ [][cpc = "rel" /\ tokens[Control] # {} =>
            cpc' = "rel" /\ tokens'[Control] \subseteq tokens[Control]]_vars
    /\ [](InStop => ENABLED ControlStep)
    /\ []((InStop \/ StopReturned) /\ h.last = "stop" /\ h.idle =>
            NoneAlive /\ swept[Control] = <<>> /\ tokens[Control] = {})

\* stop() has returned, having released the token the first step pressed,
\* while the background thread is still blocked in the wait it entered
\* before the event was set.
StopContractWitness ==
    /\ StopReturned /\ h.last = "stop" /\ ~loop
    /\ Len(macro) > 1 /\ macro[1].action = "press"
    /\ owed = {} /\ held = {}
    /\ \E t \in Threads : bpc[t] = "waiting" /\ idx[t] > 1

\* C5 as stated: after two consecutive toggle() calls that began with no
\* thread alive, the runner has been stopped: no thread is alive or the
\* event is set, and with no thread alive the held set is empty.
PairDone == cpc = "idle" /\ h.last = "toggle" /\ h.tg = 2
ToggleSymmetryAsStated ==
    PairDone => (NoneAlive \/ stop_event) /\ (NoneAlive => held = {})

\* C5: toggle() stops when the thread is alive at its is_running() test and
\* starts otherwise; when the second toggle() of such a pair finds the
\* thread alive, the event is set on its return, the thread can always take
\* its next step towards the exit, and once it has cleaned up the held set
\* is empty and nothing is owed.
ToggleSymmetry ==
    /\ [][cpc = "toggle" /\ cpc' # "toggle" =>
            cpc' = (IF is_running THEN "set" ELSE "start")]_vars
    /\ [](PairDone /\ h.stopped =>
            /\ stop_event
            /\ \A t \in Threads : alive[t] => ENABLED BgProgress(t)
            /\ BgCleanedUp => held = {} /\ owed = {})

\* The second toggle() of a pair has stopped a looping macro that held a
\* key, and the thread has exited.
ToggleSymmetryWitness ==
    /\ PairDone /\ h.stopped /\ NoneAlive /\ loop
    /\ Len(macro) > 0 /\ macro[1].action = "press" /\ macro[1].type = "key"

\* C6: once the event is set the background thread starts no step and no
\* loop iteration: it never moves into the execution of a step or into a
\* blocking wait, leaves the for and while tests towards the exit only, is
\* never blocked, and every step it takes brings it closer to its exit.
Steps == Cardinality(Tokens) + 2 * (MaxCombo + 1) + 10
ToExit(t) ==
    IF bpc[t] = "none" THEN 0
    ELSE IF bpc[t] = "sweep" THEN 1 + Cardinality(tokens[t])
    ELSE IF bpc[t] = "finally" THEN Steps
    ELSE IF bpc[t] = "while" THEN Steps + 1
    ELSE IF bpc[t] = "for" THEN Steps + 2
    ELSE IF bpc[t] \in {"do_step", "waiting"} THEN Steps + 3
    ELSE IF bpc[t] = "exec" THEN Steps + 3 + Len(ops[t])
    ELSE 3 * Steps
LoopTermination ==
    /\ [][\A t \in Threads :
            stop_event /\ bpc[t] \notin {"exec", "waiting"} =>
                bpc'[t] \notin {"exec", "waiting"}]_vars
    /\ [][\A t \in Threads :
            stop_event /\ bpc[t] = "while" => bpc'[t] \in {"while", "finally"}]_vars
    /\ [][\A t \in Threads :
            stop_event /\ bpc[t] = "for" => bpc'[t] \in {"for", "while", "finally"}]_vars
    /\ [][\A t \in Threads :
            stop_event /\ bpc[t] = "exec" /\ bpc'[t] # "exec" =>
                /\ bpc'[t] \in {"for", "finally"}
                /\ idx'[t] = idx[t] + 1 \/ raised'[t]]_vars
    /\ [](\A t \in Threads : stop_event /\ alive[t] => ENABLED BgProgress(t))
    /\ [][\A t \in Threads :
            stop_event /\ alive[t] /\ <<bpc[t], ops[t], tokens[t]>>' # <<bpc[t], ops[t], tokens[t]>> =>
                ToExit(t)' < ToExit(t)]_vars

\* The event was set while a looping thread was executing a step: the step
\* is complete and the thread is on its way out.
LoopTerminationWitness ==
    /\ loop /\ stop_event /\ Len(macro) > 1
    /\ \E t \in Threads : bpc[t] = "exec" /\ ops[t] = <<>> /\ log[t] # <<>> /\ idx[t] = 1

\* C7: a thread blocked in a wait can always be woken once the event is
\* set; a wait entered with the event set does not block; and a thread that
\* is in a wait when the event is set exits, whatever the timeout.
CancellableWait ==
    /\ [](\A t \in Threads : bpc[t] = "waiting" /\ stop_event => ENABLED BgWaitWake(t))
    /\ [][\A t \in Threads :
            bpc[t] = "do_step" /\ stop_event => bpc'[t] \in {"do_step", "for"}]_vars
    /\ ((\E t \in Threads : bpc[t] = "waiting") /\ stop_event) ~> NoneAlive
    /\ (~NoneAlive /\ stop_event) ~> NoneAlive

\* stop() has returned and the thread is still blocked in the wait.
CancellableWaitWitness ==
    StopReturned /\ stop_event /\ \E t \in Threads : bpc[t] = "waiting"

\* C8: release_all snapshots and empties the held set in one step; a sweep
\* issues exactly one release per token of its snapshot; a release_all that
\* follows another with no mark_down in between has an empty snapshot and
\* makes no backend call, as does any release_all that finds the set empty.
Sweeping(p) == IF p = Control THEN cpc \in {"rel", "locked"} ELSE bpc[p] = "sweep"
Snapshotting(p) == IF p = Control THEN cpc = "snap" ELSE bpc[p] = "finally"
SweptTokens(p) == {swept[p][i].tok : i \in 1..Len(swept[p])}
IdempotentRelease ==
    /\ [][\A p \in Procs :
            Snapshotting(p) /\ ~Snapshotting(p)' =>
                /\ tokens'[p] = held
                /\ held' = {}
                /\ swept'[p] = <<>>
                /\ (row > 0 => tokens'[p] = {})]_vars
    /\ [](\A p \in Procs :
            Sweeping(p) =>
                /\ Cardinality(SweptTokens(p)) = Len(swept[p])
                /\ SweptTokens(p) \cap tokens[p] = {}
                /\ \A i \in 1..Len(swept[p]) :
                      swept[p][i] = ReleaseOp(swept[p][i].tok, USE_PDI))
    /\ [][\A p \in Procs :
            Sweeping(p) /\ Sweeping(p)' /\ tokens[p] = {} => swept'[p] = swept[p]]_vars

\* stop() has swept two tokens, and the thread's own release_all, the next
\* one with no mark_down in between, found nothing to release.
IdempotentReleaseWitness ==
    /\ row = 2 /\ cpc = "locked" /\ Len(swept[Control]) = 2
    /\ \E t \in Threads : bpc[t] = "sweep" /\ tokens[t] = {} /\ swept[t] = <<>>

\* C9: a combo step whose key names the backend's conversion accepts issues
\* press(k1), ..., press(kn), release(kn), ..., release(k1) and nothing
\* else, and runs to its end whether or not the event is set meanwhile; an
\* empty key list issues nothing.
Accepted(keys, pdi) == pdi \/ \A i \in 1..Len(keys) : parse_key_pynput(keys[i]) # ERR
Converted(k, pdi) == IF pdi THEN to_pdi_key(k) ELSE parse_key_pynput(k)
ComboExpected(keys, pdi) ==
    [i \in 1..(2 * Len(keys)) |->
        IF i <= Len(keys)
        THEN [fn |-> IF pdi THEN "PDI.keyDown" ELSE "K.press", arg |-> Converted(keys[i], pdi)]
        ELSE [fn |-> IF pdi THEN "PDI.keyUp" ELSE "K.release",
              arg |-> Converted(keys[2 * Len(keys) + 1 - i], pdi)]]
Received(calls) == [i \in 1..Len(calls) |-> [fn |-> calls[i].fn, arg |-> calls[i].arg]]
InCombo(t) == bpc[t] = "exec" /\ macro[idx[t]].type = "combo"
LifoCombo ==
    /\ [](\A t \in Threads :
            InCombo(t) /\ Accepted(macro[idx[t]].keys, USE_PDI) =>
                /\ \A i \in 1..Len(log[t]) : log[t][i].op = "call"
                /\ \A i \in 1..Len(ops[t]) : ops[t][i].op = "call"
                /\ Received(log[t] \o ops[t]) = ComboExpected(macro[idx[t]].keys, USE_PDI))
    /\ [][\A t \in Threads :
            InCombo(t) /\ Accepted(macro[idx[t]].keys, USE_PDI) /\ ops[t] # <<>> =>
                InCombo(t)' /\ idx'[t] = idx[t] /\ Len(ops'[t]) >= Len(ops[t]) - 1]_vars

\* A two-key combo has run to its end although the event was set after it
\* began.
LifoComboWitness ==
    \E t \in Threads :
        /\ InCombo(t) /\ ops[t] = <<>> /\ stop_event
        /\ Len(macro[idx[t]].keys) = 2 /\ macro[idx[t]].keys[1] # macro[idx[t]].keys[2]
        /\ Len(log[t]) = 4

\* C10: a step of unknown type, a key or mouse_button step whose action is
\* not tap, press or release, and a mouse_move step whose mode is not
\* relative or absolute raise before any backend call or held-set change,
\* and the raise ends the run.
KnownTypes == {"wait", "text", "key", "combo", "mouse_click", "mouse_button",
               "mouse_move", "mouse_scroll"}
Rejected(step) ==
    \/ step.type \notin KnownTypes
    \/ step.type \in {"key", "mouse_button"} /\ step.action \notin {"tap", "press", "release"}
    \/ step.type = "mouse_move" /\ step.mode \notin {"relative", "absolute"}
UnknownStepRejection ==
    /\ [](\A t \in Threads :
            bpc[t] = "exec" /\ Rejected(macro[idx[t]]) =>
                log[t] = <<>> /\ ops[t] = <<Raise>>)
    /\ [][\A t \in Threads :
            bpc[t] = "exec" /\ Rejected(macro[idx[t]]) /\ bpc'[t] # "exec" =>
                /\ bpc'[t] = "finally" /\ raised'[t]
                /\ held' = held /\ down' = down /\ owed' = owed]_vars
    /\ [][\A t \in Threads :
            raised[t] => bpc'[t] \in {"finally", "sweep", "none"}]_vars

\* The second step of a macro is of unknown type: it has raised while the
\* first step's key is held, and the thread is on its way out.
UnknownStepRejectionWitness ==
    \E t \in Threads :
        /\ raised[t] /\ bpc[t] = "finally" /\ idx[t] = 2
        /\ macro[2].type = "bogus" /\ held # {}

\* C11: every way out of the step loop (completion, cancellation, an
\* exception raised by a step) leads into the finally block, whose
\* release_all snapshots and empties the held set once, and the thread ends
\* only from the end of that sweep; an exception raised in the background
\* thread changes nothing the control thread is doing, and a start() made
\* after such a run finds no thread alive, clears the event and can spawn.
LoopPcs == {"run", "while", "for", "do_step", "waiting", "exec"}
CleanupOnEveryExit ==
    /\ [][\A t \in Threads :
            bpc[t] \in LoopPcs /\ bpc'[t] \notin LoopPcs => bpc'[t] = "finally"]_vars
    /\ [][\A t \in Threads :
            bpc'[t] = "sweep" /\ bpc[t] # "sweep" =>
                bpc[t] = "finally" /\ tokens'[t] = held /\ held' = {}]_vars
    /\ [][\A t \in Threads :
            bpc[t] = "sweep" => bpc'[t] \in {"sweep", "none"}]_vars
    /\ [][\A t \in Threads :
            alive[t] /\ ~alive'[t] =>
                bpc[t] = "sweep" /\ tokens[t] = {} /\ bpc'[t] = "none"]_vars
    /\ [][(\E t \in Threads : raised'[t] /\ ~raised[t]) =>
            cpc' = cpc /\ h' = h /\ thread' = thread /\ stop_event' = stop_event]_vars
    /\ [][crashed /\ NoneAlive /\ cpc = "start" /\ cpc' # "start" => cpc' = "clear"]_vars
    /\ [](cpc = "spawn" => ENABLED StartSpawn)

\* The last run that finished ended by an exception, and the run started
\* after it is executing a step.
CleanupOnEveryExitWitness ==
    crashed /\ \E t \in Threads : alive[t] /\ bpc[t] = "exec" /\ log[t] # <<>>

\* C12: once a run in which a backend call of a step raised has ended (and
\* no release of a sweep raised), nothing is down at the backend.
NoLeakAfterFatalError ==
    NoneAlive /\ crashed /\ failed = {"step"} /\ cpc = "idle" => down = {}

\* C13: a pass of release_all's loop takes exactly one token off the rest
\* of the snapshot and issues its backend release, whether that call raises
\* or not: the sweep goes on to the other tokens, its caller sees no
\* exception (stop() goes on to its return, the thread to its end), the
\* loop ends only when the snapshot is used up, and no pass touches the
\* held set the snapshot step emptied.
InSweep(p) == IF p = Control THEN cpc = "rel" ELSE bpc[p] = "sweep"
BestEffortSweep ==
    /\ [][\A p \in Procs :
            InSweep(p) /\ tokens'[p] # tokens[p] =>
                /\ \E t \in tokens[p] :
                      /\ tokens'[p] = tokens[p] \ {t}
                      /\ swept'[p] = Append(swept[p], ReleaseOp(t, USE_PDI))
                /\ InSweep(p)'
                /\ held' = held
                /\ raised' = raised]_vars
    /\ [][\A p \in Procs :
            InSweep(p) /\ ~InSweep(p)' =>
                /\ tokens[p] = {}
                /\ IF p = Control THEN cpc' = "locked"
                   ELSE bpc'[p] = "none" /\ ~alive'[p]]_vars
    /\ [](\A p \in Procs : InSweep(p) => tokens[p] \cap SweptTokens(p) = {})

\* A sweep of two tokens has ended; the release of one of them raised and
\* left its input down, the other input was released.
BestEffortSweepWitness ==
    /\ "sweep" \in failed
    /\ \E p \in Procs :
          InSweep(p) /\ tokens[p] = {} /\ Len(swept[p]) = 2 /\ Cardinality(down) = 1

\* C14: when the event is set as do_step takes up a step that is not a
\* wait, do_step returns at once for every step type: the thread is back
\* at the for loop on the next step, no backend call was made (nothing the
\* backend holds down, no call logged, no release owed) and the held set is
\* as it was.
SkipWhenCancelled ==
    [][\A t \in Threads :
        bpc[t] = "do_step" /\ macro[idx[t]].type # "wait" /\ stop_event
        /\ bpc'[t] # "do_step" =>
            /\ bpc'[t] = "for" /\ idx'[t] = idx[t] + 1
            /\ ops'[t] = <<>> /\ log'[t] = <<>>
            /\ down' = down /\ owed' = owed /\ held' = held
            /\ raised' = raised]_vars

\* do_step has returned from the first step, a press of the key "a", and
\* the key was neither pressed nor marked: no snapshot has been taken yet
\* that could have swept it, so the step was skipped on the set event.
SkipWhenCancelledWitness ==
    \E t \in Threads :
        /\ bpc[t] = "for" /\ idx[t] = 2 /\ stop_event /\ row = 0
        /\ macro[1] = [BaseStep EXCEPT !.type = "key", !.key = "a", !.action = "press"]
        /\ held = {} /\ down = {}

\* C15: a token enters the held set only by the mark_down that follows a
\* backend press of that token which returned; a press action whose backend
\* press raises leaves do_step with the held set and the backend as they
\* were, and the exception takes the thread out of the step loop.
MarkOnlyAfterPress ==
    /\ [][held' \subseteq held \/
            \E t \in Threads :
                /\ bpc[t] = "exec" /\ log[t] # <<>>
                /\ LET c == log[t][Len(log[t])]
                   IN  /\ c.op = "call" /\ c.owe = "add"
                       /\ c.fn \in {"K.press", "PDI.keyDown", "M.press", "PDI.mouseDown"}
                       /\ macro[idx[t]].type \in {"key", "mouse_button"}
                       /\ macro[idx[t]].action = "press"
                       /\ held' = held \cup {c.tok}]_vars
    /\ [][\A t \in Threads :
            bpc[t] = "exec" /\ ops[t] # <<>> /\ Head(ops[t]).owe = "add"
            /\ bpc'[t] # "exec" =>
                /\ held' = held /\ down' = down
                /\ raised'[t] /\ bpc'[t] = "finally"]_vars
    /\ [][\A t \in Threads :
            raised[t] /\ bpc[t] = "finally" => bpc'[t] \in {"finally", "sweep"}]_vars

\* The backend press of the second press action has raised: the run is on
\* its way out and only the first step's token is held.
MarkOnlyAfterPressWitness ==
    \E t \in Threads :
        /\ raised[t] /\ bpc[t] = "finally" /\ idx[t] = 2 /\ failed = {"step"}
        /\ macro[1] = [BaseStep EXCEPT !.type = "key", !.key = "a", !.action = "press"]
        /\ macro[2] = [BaseStep EXCEPT !.type = "mouse_button", !.button = "left", !.action = "press"]
        /\ held = {KeyToken("a")}

\* C16: no step of do_step on a wait, text, combo, mouse_click, mouse_move
\* or mouse_scroll step, or on a key or mouse_button tap, changes the held
\* set; the mark_down of a press action adds the step's token, the mark_up
\* of a release action removes it (and changes nothing when it is absent),
\* and a release action has issued its backend release by then whether or
\* not the token was held.
PressOrRelease(step) ==
    step.type \in {"key", "mouse_button"} /\ step.action \in {"press", "release"}
StepToken(step) ==
    IF step.type = "key" THEN KeyToken(step.key) ELSE MouseToken(step.button)
InDoStep(t) == bpc[t] \in {"do_step", "waiting", "exec"}
HeldChangesOnlyByPressRelease ==
    /\ [][\A t \in Threads :
            /\ InDoStep(t) /\ ~PressOrRelease(macro[idx[t]])
            /\ <<bpc[t], ops[t]>>' # <<bpc[t], ops[t]>>
            => held' = held]_vars
    /\ [][\A t \in Threads :
            /\ InDoStep(t) /\ PressOrRelease(macro[idx[t]])
            /\ <<bpc[t], ops[t]>>' # <<bpc[t], ops[t]>>
            => LET step == macro[idx[t]]
                   marking == bpc[t] = "exec" /\ ops[t] # <<>>
                              /\ Head(ops[t]).op \in {"mark_down", "mark_up"}
               IN  held' = IF ~marking THEN held
                           ELSE IF step.action = "press" THEN held \cup {StepToken(step)}
                           ELSE held \ {StepToken(step)}]_vars
    /\ [](\A t \in Threads :
            /\ bpc[t] = "exec" /\ ops[t] # <<>> /\ Head(ops[t]).op = "mark_up"
            => /\ macro[idx[t]].action = "release"
               /\ Len(log[t]) = 1
               /\ log[t][1].op = "call" /\ log[t][1].fn \in UpFns
               /\ log[t][1].owe = "del" /\ log[t][1].tok = StepToken(macro[idx[t]]))

\* A release action on a token that is not held: its backend release has
\* been issued, its mark_up has run, and the held set is still empty.
HeldChangesOnlyByPressReleaseWitness ==
    \E t \in Threads :
        /\ bpc[t] = "exec" /\ ops[t] = <<>> /\ Len(log[t]) = 2 /\ row = 0 /\ held = {}
        /\ macro = <<[BaseStep EXCEPT !.type = "key", !.key = "a", !.action = "release"]>>

\* C19: the event goes from set to clear only in start()'s clear, which
\* runs only when no thread is alive, so the event stays set as long as
\* the thread it was set for is alive; and a thread is spawned only on a
\* clear event, so the run that follows a stop() made while Idle executes
\* the macro's steps.
StopRequestKept ==
    /\ [][stop_event /\ ~stop_event' => cpc = "clear" /\ cpc' = "spawn" /\ NoneAlive]_vars
    /\ [][stop_event /\ ~NoneAlive => stop_event']_vars
    /\ [][\A t \in Threads : ~alive[t] /\ alive'[t] => ~stop_event /\ ~stop_event']_vars
    /\ [](cpc \in {"clear", "spawn"} => NoneAlive)

\* stop() was called while Idle and set the event; the start() after it
\* cleared it, and the new run has executed a backend call of its first step.
StopRequestKeptWitness ==
    /\ h.last = "start" /\ h.idle_stop /\ ~stop_event
    /\ \E t \in Threads : bpc[t] = "exec" /\ idx[t] = 1 /\ log[t] # <<>> /\ ~crashed

\* C20: the held set is empty whenever no thread is alive, and so it is
\* when a newly spawned thread enters _run.
EmptyWhenIdle ==
    /\ NoneAlive => held = {}
    /\ \A t \in Threads : bpc[t] = "run" => held = {}

\* A run that only start() touched has ended: its own final sweep took the
\* token it held out of the held set, though the backend release raised
\* and the input is still down.
EmptyWhenIdleWitness ==
    /\ NoneAlive /\ cpc = "idle" /\ h.last = "start" /\ thread # 0
    /\ "sweep" \in failed /\ down # {} /\ held = {}

\* C17: in single-key mode the key-down events of the trigger key delivered
\* since its last key-up, however many, have made exactly one toggle()
\* call, and before the first of them none: a further toggle() needs the
\* key-up in between.
OneTogglePerKeyDown ==
    /\ ev.downs = 0 => ev.toggles = 0
    /\ ev.downs > 0 => ev.toggles = 1

\* The trigger key was reported down at least twice without a key-up, and
\* the one toggle() call this made has started a run.
OneTogglePerKeyDownWitness ==
    /\ trigger_hotkey = "None" /\ ev.downs >= 2 /\ ev.toggles = 1
    /\ cpc = "idle" /\ h.last = "toggle" /\ ~NoneAlive

\* What C18 says of request_quit itself: it calls stop() first; the
\* listener is told to stop only from request_quit's last statement or
\* from the watcher's "return False", with the event set and stop()'s sweep
\* done; and when self._hotkeys is None that last statement changes
\* nothing at all.
InQuit == h.last = "quit" /\ cpc \in {"set", "snap", "rel", "locked", "quit", "return_false"}
QuitStopsFirst ==
    /\ [][h'.last = "quit" /\ h.last # "quit" => cpc = "idle" /\ cpc' = "set"]_vars
    /\ [][cpc' = "quit" /\ cpc # "quit" =>
            cpc = "locked" /\ h.last = "quit" /\ stop_event /\ tokens[Control] = {}]_vars
    /\ [][listening /\ ~listening' =>
            /\ h.last = "quit" /\ cpc \in {"quit", "return_false"}
            /\ stop_event /\ tokens[Control] = {}]_vars
    /\ [][cpc = "quit" /\ cpc' # "quit" =>
            /\ listening' = (listening /\ _hotkeys = "None")
            /\ cpc' = IF trigger_hotkey = "None" THEN "return_false" ELSE "idle"
            /\ UNCHANGED <<stop_event, thread, alive, held, down, owed, tokens, swept,
                           _hotkeys, _down, bpc, raised>>]_vars
    /\ [](InQuit => ENABLED CalledStep \/ ENABLED QuitHotkeys \/ ENABLED OnPressReturnFalse)
    /\ [](cpc = "idle" /\ h.last = "quit" /\ trigger_hotkey = "None" => ~listening)

\* C18 as stated: moreover, in single-key mode every key-down the watcher
\* takes for a new one and that matches the quit key calls request_quit().
QuitOrderAsStated ==
    /\ QuitStopsFirst
    /\ [][\A k \in EventKeys :
            /\ trigger_hotkey = "None" /\ IsQuit(k)
            /\ _key_id(k) \notin _down /\ _key_id(k) \in _down'
            => h'.last = "quit" /\ cpc' = "set"]_vars

\* C18: request_quit behaves as above, and in single-key mode a key-down
\* taken for a new one that matches the quit key and does not match the
\* trigger key calls request_quit(), which ends with the watcher stopped;
\* one that matches both calls toggle() and not request_quit().
QuitOrder ==
    /\ QuitStopsFirst
    /\ [][\A k \in EventKeys :
            /\ trigger_hotkey = "None" /\ IsQuit(k)
            /\ _key_id(k) \notin _down /\ _key_id(k) \in _down'
            => IF IsTrigger(k) THEN h'.last = "toggle" /\ cpc' = "toggle" /\ listening'
               ELSE h'.last = "quit" /\ cpc' = "set"]_vars

\* The quit key of the single-key watcher went down during a run: stop()
\* was performed, request_quit returned with nothing to tell a hotkey
\* listener, and the watcher has stopped.
QuitOrderWitness ==
    /\ trigger_hotkey = "None" /\ quit_key # NoKey /\ quit_key # trigger_key
    /\ h.last = "quit" /\ ~h.idle /\ cpc = "idle" /\ ~listening /\ stop_event
    /\ _hotkeys = "None"

====
